---- MODULE Spec2Model ----
(***************************************************************************)
(* Model of the heat pump controller of src/src/restful-server.rs: the     *)
(* packet codec, the setting encoder, the status decoder, the control loop *)
(* of main() and the request handlers of setup_handlers(), which share one *)
(* Mutex<HeatPumpStatus>.                                                  *)
(*                                                                         *)
(* Conventions                                                             *)
(*  - Option<T> is a sequence: <<>> is None, <<v>> is Some(v).             *)
(*  - u8 arithmetic wraps modulo 256 (a build without overflow checks).    *)
(*    The loop is modelled in that build; CodecSpec covers both builds.    *)
(*  - Temperatures (f32 in the source) are integers in tenths of a degree. *)
(*  - Enum values are their wire codes; Unknown is 999 as in the source.   *)
(*  - The wall clock is abstracted: pollElapsed counts units of 1000 ms    *)
(*    since last_status_request and saturates at PollCap; uptime counts    *)
(*    ticks of REBOOT_PERIOD (90 minutes) since boot_instant. How long a   *)
(*    cycle takes beyond its fixed delays is left open.                    *)
(***************************************************************************)
EXTENDS Integers, Sequences, FiniteSets, TLC

VARIABLES
    pc,            \* position of the control loop of main()
    lock,          \* holder of the Mutex<HeatPumpStatus>: "none", "loop", "get" or "poisoned"
    state,         \* the HeatPumpStatus inside the mutex
    connected,     \* main(): local `connected` of the current cycle
    data_to_send,  \* main(): local `data_to_send` of the current cycle
    ptype,         \* main(): index in StatusPacketTypes of the poll's for loop (1 outside it)
    pollElapsed,   \* last_status_request.elapsed(), in units of RESPONSE_DELAY
    uptime,        \* boot_instant.elapsed(), in coarse ticks
    nvs,           \* the "settings" NVS namespace: led_brightness, controller_loc
    tx,            \* the bytes of the last uart.write() of the current cycle
    rx,            \* bytes received by the UART and not read yet
    hpc,           \* position of the POST /set.json handler
    form,          \* the handler's parsed HeatPumpSetting (empty when it is idle)
    posts,         \* number of POST /set.json requests received so far
    appliance,     \* the heat pump on the serial link: "good", "silent" or "faulty"
    faults,        \* number of times a "faulty" appliance has deviated so far
    lastRead,      \* history: type of the packet read last in the current cycle
    lastDeposit,   \* history: the HeatPumpSetting deposited last
    unsent,        \* history: the last deposit needs a set frame and none was written
    overwrote,     \* history: the last deposit replaced a pending, unsent command
    outage,        \* history: consecutive connect handshakes without connect-ack
    codec          \* the codec and encoder functions applied to one input, outside the loop

vars == <<pc, lock, state, connected, data_to_send, ptype, pollElapsed, uptime,
          nvs, tx, rx, hpc, form, posts, appliance, faults, lastRead, lastDeposit,
          unsent, overwrote, outage, codec>>

(***************************************************************************)
(* Bounds of the model                                                     *)
(***************************************************************************)
MaxFaults == 1
MaxPosts == 2
OutageCap == 2
MaxLen == 2

(***************************************************************************)
(* Program constants                                                       *)
(***************************************************************************)
\* Durations are in the units of the clocks above: RESPONSE_DELAY (1000 ms)
\* is one unit of pollElapsed, CONNECT_DELAY (2000 ms) two, and REBOOT_PERIOD
\* (Some(90 min)) one tick of uptime.
RESPONSE_DELAY == 1
CONNECT_DELAY == 2
REBOOT_PERIOD == 1
HTTP_SERVER_MAX_LEN == 512
LED_DEFAULT_BRIGHTNESS == 20
\* pollElapsed is only ever compared with RESPONSE_DELAY: it saturates just
\* above it.
PollCap == RESPONSE_DELAY + 1

CONNECT_BYTES == <<252, 90, 1, 48, 2, 202, 1, 168>>

None == <<>>
Some(v) == <<v>>
IsSome(o) == o # <<>>
Unwrap(o) == o[1]

AddU8(a, b) == (a + b) % 256
SubU8(a, b) == (a - b + 256) % 256

Min(a, b) == IF a < b THEN a ELSE b

(***************************************************************************)
(* Packet                                                                  *)
(***************************************************************************)
Packet_new_type_size(ptyp, size) ==
    [packet_type |-> ptyp, h2 |-> 1, h3 |-> 48,
     data |-> [i \in 1..size |-> 0], checksum |-> 0]

RECURSIVE SumU8(_, _)
SumU8(sum, bytes) ==
    IF bytes = <<>> THEN sum
    ELSE SumU8(AddU8(sum, Head(bytes)), Tail(bytes))

\* Mutant of compute_checksum: the two header bytes are left out of the sum.
compute_checksum_NoHeaders(p) ==
    SubU8(252, SumU8(AddU8(AddU8(252, p.packet_type), Len(p.data) % 256), p.data))

compute_checksum(p) ==
    LET sum == SumU8(AddU8(AddU8(AddU8(AddU8(252, p.packet_type), p.h2), p.h3),
                           Len(p.data) % 256), p.data)
    IN SubU8(252, sum)

check_checksum(p) == p.checksum = compute_checksum(p)

\* Mutant of set_checksum: the computed value is not stored.
set_checksum_Noop(p) == p

set_checksum(p) == [p EXCEPT !.checksum = compute_checksum(p)]

\* Mutant of to_bytes: the checksum is computed anew instead of being taken
\* from the field.
to_bytes_Recomputed(p) ==
    <<252, p.packet_type, p.h2, p.h3, Len(p.data) % 256>> \o p.data
        \o <<compute_checksum(p)>>

to_bytes(p) ==
    <<252, p.packet_type, p.h2, p.h3, Len(p.data) % 256>> \o p.data \o <<p.checksum>>

packet_size(p) == 6 + Len(p.data)

\* Mutant of from_bytes: the length check is off by one.
from_bytes_StrictLength(bytes) ==
    IF Len(bytes) < 6 THEN [ok |-> FALSE, err |-> "TooShort"]
    ELSE IF bytes[1] # 252 THEN [ok |-> FALSE, err |-> "BadMarker"]
    ELSE LET len == bytes[5] IN
         IF Len(bytes) <= 6 + len THEN [ok |-> FALSE, err |-> "LengthMismatch"]
         ELSE LET p == [packet_type |-> bytes[2], h2 |-> bytes[3], h3 |-> bytes[4],
                        data |-> SubSeq(bytes, 6, 5 + len),
                        checksum |-> bytes[6 + len]]
              IN IF ~check_checksum(p) THEN [ok |-> FALSE, err |-> "ChecksumMismatch"]
                 ELSE [ok |-> TRUE, packet |-> p]

\* Mutant of from_bytes: bytes after the checksum are a length error.
from_bytes_ExactLength(bytes) ==
    IF Len(bytes) < 6 THEN [ok |-> FALSE, err |-> "TooShort"]
    ELSE IF bytes[1] # 252 THEN [ok |-> FALSE, err |-> "BadMarker"]
    ELSE LET len == bytes[5] IN
         IF Len(bytes) # 6 + len THEN [ok |-> FALSE, err |-> "LengthMismatch"]
         ELSE LET p == [packet_type |-> bytes[2], h2 |-> bytes[3], h3 |-> bytes[4],
                        data |-> SubSeq(bytes, 6, 5 + len),
                        checksum |-> bytes[6 + len]]
              IN IF ~check_checksum(p) THEN [ok |-> FALSE, err |-> "ChecksumMismatch"]
                 ELSE [ok |-> TRUE, packet |-> p]

\* Result of Packet::from_bytes: [ok |-> TRUE, packet |-> p] or
\* [ok |-> FALSE, err |-> reason].
from_bytes(bytes) ==
    IF Len(bytes) < 6 THEN [ok |-> FALSE, err |-> "TooShort"]
    ELSE IF bytes[1] # 252 THEN [ok |-> FALSE, err |-> "BadMarker"]
    ELSE LET len == bytes[5] IN
         IF Len(bytes) < 6 + len THEN [ok |-> FALSE, err |-> "LengthMismatch"]
         ELSE LET p == [packet_type |-> bytes[2], h2 |-> bytes[3], h3 |-> bytes[4],
                        data |-> SubSeq(bytes, 6, 5 + len),
                        checksum |-> bytes[6 + len]]
              IN IF ~check_checksum(p) THEN [ok |-> FALSE, err |-> "ChecksumMismatch"]
                 ELSE [ok |-> TRUE, packet |-> p]

(***************************************************************************)
(* HeatPumpSetting                                                         *)
(***************************************************************************)
HeatPumpSetting_new ==
    [poweron |-> None, mode |-> None, desired_temperature_c |-> None,
     fan_speed |-> None, vane |-> None, widevane |-> None,
     controller_led_brightness |-> None, controller_location |-> None]

\* Mutant of requires_packet: every command is sent to the appliance.
requires_packet_Always(s) == TRUE

\* Mutant of requires_packet: widevane is forgotten.
requires_packet_NoWidevane(s) ==
    \/ IsSome(s.poweron)
    \/ IsSome(s.mode)
    \/ IsSome(s.desired_temperature_c)
    \/ IsSome(s.fan_speed)
    \/ IsSome(s.vane)

requires_packet(s) ==
    \/ IsSome(s.poweron)
    \/ IsSome(s.mode)
    \/ IsSome(s.desired_temperature_c)
    \/ IsSome(s.fan_speed)
    \/ IsSome(s.vane)
    \/ IsSome(s.widevane)

\* `(t * 2.0) as u8` for t in tenths of a degree: the cast truncates toward
\* zero and saturates at 0 and 255.
TempTimes2AsU8(t10) ==
    IF t10 <= 0 THEN 0
    ELSE Min(255, (t10 * 2) \div 10)

BitOr(b, bit) == IF (b \div bit) % 2 = 1 THEN b ELSE b + bit

\* Mutant of to_packet: the fan speed is written one byte too early.
to_packet_FanByte5(s) ==
    LET p0 == Packet_new_type_size(65, 16)
        d0 == [p0.data EXCEPT ![1] = 1]
        d1 == IF IsSome(s.poweron)
              THEN [d0 EXCEPT ![2] = BitOr(@, 1),
                              ![4] = IF Unwrap(s.poweron) THEN 1 ELSE 0]
              ELSE d0
        d2 == IF IsSome(s.mode)
              THEN [d1 EXCEPT ![2] = BitOr(@, 2), ![5] = Unwrap(s.mode) % 256]
              ELSE d1
        d3 == IF IsSome(s.desired_temperature_c)
              THEN [d2 EXCEPT ![2] = BitOr(@, 4),
                              ![15] = AddU8(TempTimes2AsU8(Unwrap(s.desired_temperature_c)), 128)]
              ELSE d2
        d4 == IF IsSome(s.fan_speed)
              THEN [d3 EXCEPT ![2] = BitOr(@, 8), ![6] = Unwrap(s.fan_speed) % 256]
              ELSE d3
        d5 == IF IsSome(s.vane)
              THEN [d4 EXCEPT ![2] = BitOr(@, 16), ![8] = Unwrap(s.vane) % 256]
              ELSE d4
        d6 == IF IsSome(s.widevane)
              THEN [d5 EXCEPT ![3] = BitOr(@, 1), ![14] = Unwrap(s.widevane) % 256]
              ELSE d5
    IN set_checksum([p0 EXCEPT !.data = d6])

\* Mutant of to_packet: the LED brightness is put in a payload byte.
to_packet_WithLed(s) ==
    LET p0 == Packet_new_type_size(65, 16)
        d0 == [p0.data EXCEPT ![1] = 1]
        d1 == IF IsSome(s.poweron)
              THEN [d0 EXCEPT ![2] = BitOr(@, 1),
                              ![4] = IF Unwrap(s.poweron) THEN 1 ELSE 0]
              ELSE d0
        d2 == IF IsSome(s.mode)
              THEN [d1 EXCEPT ![2] = BitOr(@, 2), ![5] = Unwrap(s.mode) % 256]
              ELSE d1
        d3 == IF IsSome(s.desired_temperature_c)
              THEN [d2 EXCEPT ![2] = BitOr(@, 4),
                              ![15] = AddU8(TempTimes2AsU8(Unwrap(s.desired_temperature_c)), 128)]
              ELSE d2
        d4 == IF IsSome(s.fan_speed)
              THEN [d3 EXCEPT ![2] = BitOr(@, 8), ![7] = Unwrap(s.fan_speed) % 256]
              ELSE d3
        d5 == IF IsSome(s.vane)
              THEN [d4 EXCEPT ![2] = BitOr(@, 16), ![8] = Unwrap(s.vane) % 256]
              ELSE d4
        d6 == IF IsSome(s.widevane)
              THEN [d5 EXCEPT ![3] = BitOr(@, 1), ![14] = Unwrap(s.widevane) % 256]
              ELSE d5
        d7 == IF IsSome(s.controller_led_brightness)
              THEN [d6 EXCEPT ![10] = Unwrap(s.controller_led_brightness) % 256]
              ELSE d6
    IN set_checksum([p0 EXCEPT !.data = d7])

to_packet(s) ==
    LET p0 == Packet_new_type_size(65, 16)
        d0 == [p0.data EXCEPT ![1] = 1]
        d1 == IF IsSome(s.poweron)
              THEN [d0 EXCEPT ![2] = BitOr(@, 1),
                              ![4] = IF Unwrap(s.poweron) THEN 1 ELSE 0]
              ELSE d0
        d2 == IF IsSome(s.mode)
              THEN [d1 EXCEPT ![2] = BitOr(@, 2), ![5] = Unwrap(s.mode) % 256]
              ELSE d1
        d3 == IF IsSome(s.desired_temperature_c)
              THEN [d2 EXCEPT ![2] = BitOr(@, 4),
                              ![15] = AddU8(TempTimes2AsU8(Unwrap(s.desired_temperature_c)), 128)]
              ELSE d2
        d4 == IF IsSome(s.fan_speed)
              THEN [d3 EXCEPT ![2] = BitOr(@, 8), ![7] = Unwrap(s.fan_speed) % 256]
              ELSE d3
        d5 == IF IsSome(s.vane)
              THEN [d4 EXCEPT ![2] = BitOr(@, 16), ![8] = Unwrap(s.vane) % 256]
              ELSE d4
        d6 == IF IsSome(s.widevane)
              THEN [d5 EXCEPT ![3] = BitOr(@, 1), ![14] = Unwrap(s.widevane) % 256]
              ELSE d5
    IN set_checksum([p0 EXCEPT !.data = d6])

(***************************************************************************)
(* Enums decoded with from_repr: Some(code) for a declared discriminant,   *)
(* None for any other value.                                               *)
(***************************************************************************)
StatusPacketTypes == <<2, 3, 4, 5, 6, 9>>

from_repr(codes, x) == IF x \in codes THEN Some(x) ELSE None

\* Mutant of StatusPacketType_from_repr: StandbyMode is taken for Settings.
StatusPacketType_from_repr_Standby(x) ==
    IF x = 9 THEN Some(2) ELSE from_repr({2, 3, 4, 5, 6}, x)

StatusPacketType_from_repr(x) == from_repr({2, 3, 4, 5, 6, 9}, x)
HeatPumpMode_from_repr(x) == from_repr({0, 1, 2, 3, 7, 8}, x)
FanSpeed_from_repr(x) == from_repr({0, 1, 2, 3, 5, 6}, x)
VaneDirection_from_repr(x) == from_repr({0, 1, 2, 3, 4, 5, 7}, x)
WideVaneDirection_from_repr(x) == from_repr({1, 2, 3, 4, 5, 8, 12, 999}, x)
ISeeMode_from_repr(x) == from_repr({999, 2, 1}, x)

UnwrapOr(o, d) == IF IsSome(o) THEN Unwrap(o) ELSE d

\* b & !mask for a one-bit mask
ClearBit(b, bit) == IF (b \div bit) % 2 = 1 THEN b - bit ELSE b

(***************************************************************************)
(* HeatPumpStatus                                                          *)
(***************************************************************************)
HeatPumpStatus_new ==
    [connected |-> FALSE, poweron |-> FALSE, isee_present |-> FALSE,
     mode |-> 0, desired_temperature_c |-> -9990, fan_speed |-> 0, vane |-> 0,
     widevane |-> 3, isee_mode |-> 999, room_temperature_c |-> -9990,
     room_temperature_c_2 |-> -9990, operating |-> 0, error_data |-> None,
     last_status_packets |-> <<>>, desired_settings |-> None,
     controller_led_brightness |-> LED_DEFAULT_BRIGHTNESS,
     controller_location |-> None]

\* Mutant of MapInsert: an entry already in the map is kept.
MapInsert_IfAbsent(m, k, v) ==
    IF k \in DOMAIN m THEN m ELSE [x \in DOMAIN m \cup {k} |-> IF x = k THEN v ELSE m[x]]

\* HashMap::insert
MapInsert(m, k, v) == [x \in DOMAIN m \cup {k} |-> IF x = k THEN v ELSE m[x]]

\* `((b - 128) as f32) / 2.0`, in tenths of a degree
NewTemp(b) == SubU8(b, 128) * 5
\* `(b + 10) as f32`, in tenths of a degree
LegacyTemp(b) == AddU8(b, 10) * 10

\* The Settings arm of status_to_state. The fields are assigned in the
\* source's order, so a failing unwrap() leaves the earlier ones assigned.
DecodeSettings(d, st) ==
    LET s1 == [st EXCEPT !.poweron = d[4] # 0,
                         !.isee_present = (d[5] \div 8) % 2 = 1]
        mode == HeatPumpMode_from_repr(ClearBit(d[5], 8))
        s2 == [s1 EXCEPT !.mode = Unwrap(mode),
                         !.desired_temperature_c =
                             IF d[12] # 0 THEN NewTemp(d[12]) ELSE LegacyTemp(d[6])]
        fan == FanSpeed_from_repr(d[7])
        s3 == [s2 EXCEPT !.fan_speed = Unwrap(fan)]
        vane == VaneDirection_from_repr(d[8])
        s4 == [s3 EXCEPT !.vane = Unwrap(vane)]
        wvmod == ClearBit(d[11], 128)
        s5 == [s4 EXCEPT !.widevane = UnwrapOr(WideVaneDirection_from_repr(wvmod), 999)]
    IN IF ~IsSome(mode) THEN [outcome |-> "panic", state |-> s1]
       ELSE IF ~IsSome(fan) THEN [outcome |-> "panic", state |-> s2]
       ELSE IF ~IsSome(vane) THEN [outcome |-> "panic", state |-> s3]
       ELSE [outcome |-> "ok", state |-> s5]

DecodeRoomTemperature(d, st) ==
    [st EXCEPT !.room_temperature_c =
                   IF d[7] # 0 THEN NewTemp(d[7]) ELSE LegacyTemp(d[4]),
               !.room_temperature_c_2 =
                   IF d[8] # 0 THEN NewTemp(d[8]) ELSE -9990,
               !.isee_mode = UnwrapOr(ISeeMode_from_repr(d[9]), 999)]

\* Mutant of DecodeErrorCodeMaybe: the 0x80 sentinel leaves the stored error.
DecodeErrorCodeMaybe_NeverClears(d, st) ==
    [st EXCEPT !.error_data = IF d[5] = 128 THEN st.error_data ELSE Some(d)]

DecodeErrorCodeMaybe(d, st) ==
    [st EXCEPT !.error_data = IF d[5] = 128 THEN None ELSE Some(d)]

DecodeMiscInfo(d, st) == [st EXCEPT !.operating = d[5]]

\* Mutant of CheckStatusPacket: the type of the frame is not looked at.
CheckStatusPacket_AnyType(packet) == Len(packet.data) = 16

\* The two checks at the head of status_to_state, before the lock is taken
CheckStatusPacket(packet) == packet.packet_type = 98 /\ Len(packet.data) = 16

\* status_to_state: outcome "err" is the anyhow::bail!, "panic" a failed
\* unwrap(), "ok" the Ok(()) return; state is the HeatPumpStatus afterwards.
status_to_state(packet, st) ==
    IF ~CheckStatusPacket(packet) THEN [outcome |-> "err", state |-> st]
    ELSE
      LET d == packet.data
          t == StatusPacketType_from_repr(d[1])
          r == IF t = Some(2) THEN DecodeSettings(d, st)
               ELSE IF t = Some(3) THEN [outcome |-> "ok", state |-> DecodeRoomTemperature(d, st)]
               ELSE IF t = Some(4) THEN [outcome |-> "ok", state |-> DecodeErrorCodeMaybe(d, st)]
               ELSE IF t = Some(6) THEN [outcome |-> "ok", state |-> DecodeMiscInfo(d, st)]
               ELSE [outcome |-> "ok", state |-> st]
      IN IF r.outcome = "ok"
         THEN [outcome |-> "ok",
               state |-> [r.state EXCEPT !.last_status_packets = MapInsert(@, d[1], d)]]
         ELSE r

(***************************************************************************)
(* The heat pump on the other end of the serial link. A "good" appliance   *)
(* answers every request in time with the frame the protocol expects, a    *)
(* "silent" one (unplugged) never answers, and a "faulty" one deviates up  *)
(* to MaxFaults times: it stays silent, answers late, or sends one of the  *)
(* Deviants.                                                               *)
(***************************************************************************)
Frame(ptyp, data) ==
    to_bytes(set_checksum([Packet_new_type_size(ptyp, Len(data)) EXCEPT !.data = data]))

Zeros(n) == [i \in 1..n |-> 0]

ConnAck == Frame(122, <<0>>)
SetAck == Frame(97, Zeros(16))

StatusPayload(subtype) ==
    IF subtype = 2 THEN <<2, 0, 0, 1, 8, 22, 0, 3, 0, 0, 3, 0, 0, 0, 0, 0>>
    ELSE IF subtype = 3 THEN <<3, 0, 0, 12, 0, 0, 172, 0, 2, 0, 0, 0, 0, 0, 0, 0>>
    ELSE IF subtype = 4 THEN <<4, 0, 0, 0, 128, 0, 0, 0, 0, 0, 0, 0, 0, 0, 0, 0>>
    ELSE IF subtype = 6 THEN <<6, 0, 0, 0, 1, 0, 0, 0, 0, 0, 0, 0, 0, 0, 0, 0>>
    ELSE [Zeros(16) EXCEPT ![1] = subtype]

StatusReply(subtype) == Frame(98, StatusPayload(subtype))

\* A Settings status whose mode byte (4) is no HeatPumpMode
BadModeStatus == Frame(98, <<2, 0, 0, 1, 4, 22, 0, 3, 0, 0, 3, 0, 0, 0, 0, 0>>)

BadMarkerFrame == [SetAck EXCEPT ![1] = 0]
BadChecksumFrame == [SetAck EXCEPT ![Len(SetAck)] = (@ + 1) % 256]
TruncatedFrame == SubSeq(SetAck, 1, 10)

MalformedFrames == {BadMarkerFrame, BadChecksumFrame, TruncatedFrame}

\* A well-formed status reply that answers another subtype than the one
\* requested (Timers, except to the request for Timers)
MisplacedStatus == Frame(98, [Zeros(16) EXCEPT ![1] = 5])

Deviants == MalformedFrames \cup {ConnAck, SetAck, BadModeStatus, MisplacedStatus}

ExpectedReply(request) ==
    IF request = CONNECT_BYTES THEN ConnAck
    ELSE IF request[2] = 65 THEN SetAck
    ELSE IF request[2] = 66 THEN StatusReply(request[6])
    ELSE <<>>

\* What reaches the UART during the wait that follows a request
Replies(request) ==
    IF appliance = "silent" THEN {<<>>}
    ELSE IF appliance = "faulty" /\ faults < MaxFaults
    THEN {<<>>, ExpectedReply(request)} \cup Deviants
    ELSE {ExpectedReply(request)}

\* What reaches the UART after the loop gave up waiting
LateReplies(request) ==
    IF appliance = "faulty" THEN {<<>>, ExpectedReply(request)} ELSE {<<>>}

\* The appliance's count of deviations after it sent `reply` to `request`
Deviated(request, reply) ==
    IF appliance = "faulty" /\ reply # ExpectedReply(request)
    THEN faults + 1 ELSE faults

(***************************************************************************)
(* Requests to POST /set.json: the declared content length and what        *)
(* serde_json::from_slice makes of the body (None: a parse error).         *)
(***************************************************************************)
CmdA == [HeatPumpSetting_new EXCEPT !.poweron = Some(TRUE),
                                    !.desired_temperature_c = Some(215)]
CmdB == [HeatPumpSetting_new EXCEPT !.mode = Some(3), !.fan_speed = Some(2),
                                    !.controller_led_brightness = Some(50),
                                    !.controller_location = Some("den")]
CmdL == [HeatPumpSetting_new EXCEPT !.controller_led_brightness = Some(50),
                                    !.controller_location = Some("den")]

Commands == {CmdA, CmdB, CmdL}

Bodies ==
    {[content_len |-> 600, parsed |-> None], [content_len |-> 7, parsed |-> None]}
    \cup {[content_len |-> 40, parsed |-> Some(c)] : c \in Commands}

Restarted == {"restart_wifi", "restart_uptime"}
Panicked == {"panic_take", "panic_set", "panic_decode"}
Failed == {"err_malformed", "err_status"}
Stopped == Restarted \cup Panicked \cup Failed

Saturate(n, cap) == Min(n, cap)

LoopInit ==
    /\ pc = "start"
    /\ lock = "none"
    /\ state = HeatPumpStatus_new
    /\ connected = FALSE
    /\ data_to_send = FALSE
    /\ ptype = 1
    /\ pollElapsed = RESPONSE_DELAY
    /\ uptime = 0
    /\ nvs = [led_brightness |-> None, controller_loc |-> None]
    /\ tx = <<>>
    /\ rx = <<>>
    /\ hpc = "idle"
    /\ form = HeatPumpSetting_new
    /\ posts = 0
    /\ appliance \in {"good", "silent", "faulty"}
    /\ faults = 0
    /\ lastRead = None
    /\ lastDeposit = None
    /\ unsent = FALSE
    /\ overwrote = FALSE
    /\ outage = 0

\* The record of the codec functions applied outside the loop: the input
\* (a Packet or a HeatPumpSetting), the build, the function applied last and
\* what it returned.
CodecCase(kind, checks, p, s) ==
    [kind |-> kind, overflow_checks |-> checks, op |-> "init", via |-> "init",
     panicked |-> FALSE, frame |-> p, sealed |-> FALSE, wire |-> <<>>,
     orig |-> <<>>, hit |-> 0, result |-> [ok |-> FALSE, err |-> "none"],
     setting |-> s, packet |-> p, needs |-> FALSE,
     payload |-> <<>>, snapshot |-> HeatPumpStatus_new, outcome |-> "none",
     body |-> [content_len |-> 0, parsed |-> None], store |-> HeatPumpStatus_new,
     status |-> 0]

\* Inside main() the functions are applied by the loop's own actions.
CodecIdle == CodecCase("none", FALSE, Packet_new_type_size(0, 0), HeatPumpSetting_new)

Init == LoopInit /\ codec = CodecIdle

(***************************************************************************)
(* The control loop of main()                                              *)
(***************************************************************************)
\* Mutant of Branch: a poll that is due goes before a pending command.
Branch_PollFirst(conn, dts, elapsed) ==
    IF conn
    THEN IF elapsed > RESPONSE_DELAY THEN "poll_flush"
         ELSE IF dts THEN "set_lock"
         ELSE "local"
    ELSE "connect_write"

\* The "business part" of the loop: `if connected { if data_to_send {..}
\* else if last_status_request.elapsed() > RESPONSE_DELAY {..} } else {..}`
Branch(conn, dts, elapsed) ==
    IF conn
    THEN IF dts THEN "set_lock"
         ELSE IF elapsed > RESPONSE_DELAY THEN "poll_flush"
         ELSE "local"
    ELSE "connect_write"

\* Top of the loop: NVS is read into the state, `connected` and
\* `data_to_send` are taken under the lock, WiFi is checked, and the branch
\* of the "business part" is chosen.
LoopStart ==
    /\ pc = "start"
    /\ lock = "none"
    /\ state' = [state EXCEPT
                   !.controller_led_brightness =
                       UnwrapOr(nvs.led_brightness, LED_DEFAULT_BRIGHTNESS),
                   !.controller_location = nvs.controller_loc]
    /\ connected' = state.connected
    /\ data_to_send' = IsSome(state.desired_settings)
    /\ \E wifi_is_connected \in BOOLEAN :
         pc' = IF ~wifi_is_connected THEN "restart_wifi"
               ELSE Branch(state.connected, IsSome(state.desired_settings), pollElapsed)
    /\ UNCHANGED <<codec, lock, ptype, pollElapsed, uptime, nvs, tx, rx, hpc, form, posts, appliance,
                   faults, lastRead, lastDeposit, unsent, overwrote, outage>>

\* Mutant of MarkDisconnected: the flag is left as it is.
MarkDisconnected_Forgotten(st) == st

\* `realstate.connected = false`, of both "assuming disconnected" arms
MarkDisconnected(st) == [st EXCEPT !.connected = FALSE]

\* Mutant of SetReply: any valid reply counts as the acknowledgement.
SetReply_AnyType(p) == "ack"

\* The match on the packet read after a set frame: "ack" lets the command be
\* cleared, anything else is the panic!().
SetReply(p) == IF p.packet_type = 97 THEN "ack" ELSE "panic"

\* Mutant of IsConnectAck: any valid reply connects.
IsConnectAck_AnyType(p) == TRUE

\* `response.packet_type == 0x7A`
IsConnectAck(p) == p.packet_type = 122

\* Mutant of AfterLocalSettings: the controller fields stay in the command.
AfterLocalSettings_KeepsLocal(ds, dts) == IF ~dts THEN None ELSE Some(ds)

\* Mutant of AfterLocalSettings: the command is cleared whatever
\* data_to_send says.
AfterLocalSettings_AlwaysClear(ds, dts) == None

\* What the block of the controller's own settings leaves in
\* desired_settings, given the pending HeatPumpSetting: both controller
\* fields are set to None, and `if !data_to_send` the whole is cleared.
AfterLocalSettings(ds, dts) ==
    IF ~dts THEN None
    ELSE Some([ds EXCEPT !.controller_led_brightness = None,
                         !.controller_location = None])

\* Mutant of RestartDue: a long link outage restarts the device too.
RestartDue_OrOutage == uptime >= REBOOT_PERIOD \/ outage >= OutageCap

\* `boot_instant.elapsed() >= REBOOT_PERIOD.unwrap()`
RestartDue == uptime >= REBOOT_PERIOD

\* Mutant of Deposit: a form posted while a command is pending withdraws it.
Deposit_Withdraws(st, f) ==
    [st EXCEPT !.desired_settings = IF IsSome(@) THEN None ELSE Some(f)]

\* Mutant of Deposit: the fields of the form are merged into the pending
\* command instead of replacing it.
Deposit_Merge(st, f) ==
    LET old == UnwrapOr(st.desired_settings, HeatPumpSetting_new)
    IN [st EXCEPT !.desired_settings =
           Some([k \in DOMAIN f |-> IF IsSome(f[k]) THEN f[k] ELSE old[k]])]

\* The handler's `stateg.desired_settings = Some(form)`
Deposit(st, f) == [st EXCEPT !.desired_settings = Some(f)]

\* Mutant of AfterPoll: the timer is reset by an aborted poll too.
AfterPoll_Always(elapsed, all_done) == 0

\* `if all_done { last_status_request = Instant::now(); }`: what
\* last_status_request.elapsed() is after the for loop of the poll
AfterPoll(elapsed, all_done) == IF all_done THEN 0 ELSE elapsed

\* Mutant of PostStatus: the length of the body is not limited.
PostStatus_NoLimit(body) == IF ~IsSome(body.parsed) THEN 400 ELSE 200

\* The status the handler of POST /set.json answers with
PostStatus(body) ==
    IF body.content_len > HTTP_SERVER_MAX_LEN THEN 413
    ELSE IF ~IsSome(body.parsed) THEN 400
    ELSE 200

\* Mutant of SetBranchEnd: the guard outlives the block.
SetBranchEnd_Held(holder) == holder

\* The end of the `if data_to_send` block: `realstate` goes out of scope
\* and the mutex is released, on every path out of the block.
SetBranchEnd(holder) == "none"

\* `if data_to_send`: the lock is taken and held to the end of the block.
SetLock ==
    /\ pc = "set_lock"
    /\ lock = "none"
    /\ IF ~IsSome(state.desired_settings)
       THEN /\ pc' = "panic_take"
            /\ UNCHANGED <<lock, data_to_send>>
       ELSE IF requires_packet(Unwrap(state.desired_settings))
       THEN /\ pc' = "set_write"
            /\ lock' = "loop"
            /\ UNCHANGED data_to_send
       ELSE /\ pc' = "local"
            /\ data_to_send' = FALSE
            /\ UNCHANGED lock
    /\ UNCHANGED <<codec, state, connected, ptype, pollElapsed, uptime, nvs, tx, rx, hpc,
                   form, posts, appliance, faults, lastRead, lastDeposit, unsent, overwrote, outage>>

SetWrite ==
    /\ pc = "set_write"
    /\ tx' = to_bytes(to_packet(Unwrap(state.desired_settings)))
    /\ unsent' = FALSE
    /\ pc' = "set_read"
    /\ UNCHANGED overwrote
    /\ UNCHANGED <<codec, lock, state, connected, data_to_send, ptype, pollElapsed, uptime,
                   nvs, rx, hpc, form, posts, appliance, faults, lastRead, lastDeposit,
                   outage>>

\* The wait for RESPONSE_DELAY, read_packet() and the match on its result
SetRead ==
    /\ pc = "set_read"
    /\ \E reply \in Replies(tx), late \in LateReplies(tx) :
         /\ faults' = Deviated(tx, reply)
         /\ LET bytes_read == rx \o reply
                p == from_bytes(bytes_read)
            IN IF bytes_read = <<>>
               THEN /\ state' = MarkDisconnected(state)
                    /\ lastRead' = None
                    /\ rx' = late
                    /\ pollElapsed' = Saturate(pollElapsed + RESPONSE_DELAY, PollCap)
                    /\ pc' = "local"
                    /\ UNCHANGED data_to_send
               ELSE /\ rx' = <<>>
                    /\ UNCHANGED <<state, pollElapsed>>
                    /\ IF ~p.ok
                       THEN /\ pc' = "err_malformed"
                            /\ UNCHANGED <<lastRead, data_to_send>>
                       ELSE /\ lastRead' = Some(p.packet.packet_type)
                            /\ IF SetReply(p.packet) = "ack"
                               THEN /\ data_to_send' = FALSE
                                    /\ pc' = "local"
                               ELSE /\ pc' = "panic_set"
                                    /\ UNCHANGED data_to_send
    /\ lock' = SetBranchEnd(lock)
    /\ UNCHANGED <<codec, connected, ptype, uptime, nvs, tx, hpc, form,
                   posts, appliance, lastDeposit, unsent, overwrote, outage>>

\* "First make sure there's no junk left unread in the uart"
PollFlush ==
    /\ pc = "poll_flush"
    /\ rx' = <<>>
    /\ ptype' = 1
    /\ pc' = "poll_write"
    /\ UNCHANGED <<codec, lock, state, connected, data_to_send, pollElapsed, uptime, nvs, tx,
                   hpc, form, posts, appliance, faults, lastRead, lastDeposit, unsent, overwrote,
                   outage>>

\* Mutant of StatusRequest: set_checksum() is not called.
StatusRequest_NoChecksum(subtype) ==
    to_bytes([Packet_new_type_size(66, 16) EXCEPT !.data[1] = subtype])

StatusRequest(subtype) ==
    to_bytes(set_checksum([Packet_new_type_size(66, 16) EXCEPT !.data[1] = subtype]))

PollWrite ==
    /\ pc = "poll_write"
    /\ tx' = StatusRequest(StatusPacketTypes[ptype])
    /\ pc' = "poll_read"
    /\ UNCHANGED <<codec, lock, state, connected, data_to_send, ptype, pollElapsed, uptime,
                   nvs, rx, hpc, form, posts, appliance, faults, lastRead, lastDeposit,
                   unsent, overwrote, outage>>

\* The wait for RESPONSE_DELAY, read_packet(), status_to_state() and the end
\* of the for loop's body; after the last subtype, `if all_done`.
PollRead ==
    /\ pc = "poll_read"
    /\ lock = "none"
    /\ \E reply \in Replies(tx), late \in LateReplies(tx) :
         /\ faults' = Deviated(tx, reply)
         /\ LET bytes_read == rx \o reply
                p == from_bytes(bytes_read)
                r == status_to_state(p.packet, state)
            IN IF bytes_read = <<>>
               THEN /\ state' = MarkDisconnected(state)
                    /\ lastRead' = None
                    /\ rx' = late
                    /\ pollElapsed' = Saturate(AfterPoll(pollElapsed, FALSE) + RESPONSE_DELAY,
                                               PollCap)
                    /\ pc' = "local"
                    /\ ptype' = 1
               ELSE /\ rx' = <<>>
                    /\ IF ~p.ok
                       THEN /\ pc' = "err_malformed"
                            /\ UNCHANGED <<state, lastRead, ptype, pollElapsed>>
                       ELSE /\ lastRead' = Some(p.packet.packet_type)
                            /\ state' = r.state
                            /\ IF r.outcome = "err"
                               THEN /\ pc' = "err_status"
                                    /\ UNCHANGED <<ptype, pollElapsed>>
                               ELSE IF r.outcome = "panic"
                               THEN /\ pc' = "panic_decode"
                                    /\ UNCHANGED <<ptype, pollElapsed>>
                               ELSE IF ptype < Len(StatusPacketTypes)
                               THEN /\ pc' = "poll_write"
                                    /\ ptype' = ptype + 1
                                    /\ UNCHANGED pollElapsed
                               ELSE /\ pc' = "local"
                                    /\ pollElapsed' = AfterPoll(pollElapsed, TRUE)
                                    /\ ptype' = 1
    /\ UNCHANGED <<codec, lock, connected, data_to_send, uptime, nvs, tx, hpc, form, posts, appliance,
                   lastDeposit, unsent, overwrote, outage>>

ConnectWrite ==
    /\ pc = "connect_write"
    /\ tx' = CONNECT_BYTES
    /\ pc' = "connect_read"
    /\ UNCHANGED <<codec, lock, state, connected, data_to_send, ptype, pollElapsed, uptime,
                   nvs, rx, hpc, form, posts, appliance, faults, lastRead, lastDeposit,
                   unsent, overwrote, outage>>

\* The sleep of CONNECT_DELAY, one uart.read() into the 22-byte buffer and
\* the check of the response
ConnectRead ==
    /\ pc = "connect_read"
    /\ lock = "none"
    /\ \E reply \in Replies(tx), late \in LateReplies(tx) :
         /\ faults' = Deviated(tx, reply)
         /\ LET avail == rx \o reply
                nread == Min(Len(avail), 22)
                response == from_bytes(SubSeq(avail, 1, nread))
            IN IF nread = 0
               THEN /\ rx' = late
                    /\ lastRead' = None
                    /\ outage' = Saturate(outage + 1, OutageCap)
                    /\ pc' = "local"
                    /\ UNCHANGED state
               ELSE /\ rx' = SubSeq(avail, nread + 1, Len(avail))
                    /\ IF ~response.ok
                       THEN /\ pc' = "err_malformed"
                            /\ UNCHANGED <<state, lastRead, outage>>
                       ELSE /\ lastRead' = Some(response.packet.packet_type)
                            /\ pc' = "local"
                            /\ IF IsConnectAck(response.packet)
                               THEN /\ state' = [state EXCEPT !.connected = TRUE]
                                    /\ outage' = 0
                               ELSE /\ outage' = Saturate(outage + 1, OutageCap)
                                    /\ UNCHANGED state
    /\ pollElapsed' = Saturate(pollElapsed + CONNECT_DELAY, PollCap)
    /\ UNCHANGED <<codec, lock, connected, data_to_send, ptype, uptime, nvs, tx, hpc, form,
                   posts, appliance, lastDeposit, unsent, overwrote>>

\* The block of the controller's own settings at the end of the cycle
LocalSettings ==
    /\ pc = "local"
    /\ lock = "none"
    /\ IF IsSome(state.desired_settings)
       THEN LET ds == Unwrap(state.desired_settings)
            IN /\ nvs' = [led_brightness |->
                              IF IsSome(ds.controller_led_brightness)
                              THEN ds.controller_led_brightness
                              ELSE nvs.led_brightness,
                          controller_loc |->
                              IF IsSome(ds.controller_location)
                              THEN ds.controller_location
                              ELSE nvs.controller_loc]
               /\ state' = [state EXCEPT !.desired_settings =
                                AfterLocalSettings(ds, data_to_send)]
       ELSE UNCHANGED <<nvs, state>>
    /\ pc' = "end"
    /\ UNCHANGED <<codec, lock, connected, data_to_send, ptype, pollElapsed, uptime, tx, rx,
                   hpc, form, posts, appliance, faults, lastRead, lastDeposit, unsent, overwrote,
                   outage>>

\* "Restart if needed", then the sleep up to LOOP_MIN_LENGTH. How much time
\* the cycle has taken is not determined by the model. The cycle's locals
\* and the record of what it wrote and read end with it.
LoopEnd ==
    /\ pc = "end"
    /\ IF RestartDue
       THEN /\ pc' = "restart_uptime"
            /\ UNCHANGED <<pollElapsed, uptime, connected, data_to_send, tx, lastRead>>
       ELSE /\ pc' = "start"
            /\ \E dp \in 0..1 : pollElapsed' = Saturate(pollElapsed + dp, PollCap)
            /\ \E du \in 0..1 : uptime' = uptime + du
            /\ connected' = FALSE
            /\ data_to_send' = FALSE
            /\ tx' = <<>>
            /\ lastRead' = None
    /\ UNCHANGED <<codec, lock, state, ptype, nvs, rx, hpc, form, posts, appliance, faults,
                   lastDeposit, unsent, overwrote, outage>>

(***************************************************************************)
(* The handler of POST /set.json, run by the HTTP server's task            *)
(***************************************************************************)
\* Up to the response: 413 for a body that is too long, 400 for one that
\* does not parse, 200 and the echoed form otherwise.
PostReceive ==
    /\ pc \notin Stopped
    /\ hpc = "idle"
    /\ posts < MaxPosts
    /\ posts' = posts + 1
    /\ \E body \in Bodies :
         IF PostStatus(body) = 200
         THEN /\ form' = Unwrap(body.parsed)
              /\ hpc' = "deposit"
         ELSE UNCHANGED <<hpc, form>>
    /\ UNCHANGED <<codec, pc, lock, state, connected, data_to_send, ptype, pollElapsed,
                   uptime, nvs, tx, rx, appliance, faults, lastRead, lastDeposit,
                   unsent, overwrote, outage>>

\* `stateg.desired_settings = Some(form)` under the lock
PostDeposit ==
    /\ pc \notin Stopped
    /\ hpc = "deposit"
    /\ lock = "none"
    /\ state' = Deposit(state, form)
    /\ lastDeposit' = Some(form)
    /\ unsent' = requires_packet(form)
    /\ overwrote' = (unsent /\ IsSome(state.desired_settings))
    /\ form' = HeatPumpSetting_new
    /\ hpc' = "idle"
    /\ UNCHANGED <<codec, pc, lock, connected, data_to_send, ptype, pollElapsed, uptime, nvs,
                   tx, rx, posts, appliance, faults, lastRead, outage>>

Loop ==
    \/ LoopStart
    \/ SetLock
    \/ SetWrite
    \/ SetRead
    \/ PollFlush
    \/ PollWrite
    \/ PollRead
    \/ ConnectWrite
    \/ ConnectRead
    \/ LocalSettings
    \/ LoopEnd

Next ==
    \/ LoopStart
    \/ SetLock
    \/ SetWrite
    \/ SetRead
    \/ PollFlush
    \/ PollWrite
    \/ PollRead
    \/ ConnectWrite
    \/ ConnectRead
    \/ LocalSettings
    \/ LoopEnd
    \/ PostReceive
    \/ PostDeposit

Spec == Init /\ [][Next]_vars

\* The appliance of C2: it acknowledges every request.
LiveInit == Init /\ appliance = "good"

\* The loop is a running thread and the handler, once it has answered, goes
\* on to the deposit.
LiveSpec == LiveInit /\ [][Next]_vars /\ WF_vars(Loop) /\ WF_vars(PostDeposit)

(***************************************************************************)
(* Packet and HeatPumpSetting on their own                                 *)
(*                                                                         *)
(* The functions are applied to one input drawn by CodecInit. The source   *)
(* writes its u8 arithmetic with +, += and -: it wraps in a build without  *)
(* overflow checks (the definitions above) and panics in a build with      *)
(* them. codec.overflow_checks is the build.                               *)
(***************************************************************************)
loopVars == <<pc, lock, state, connected, data_to_send, ptype, pollElapsed, uptime,
              nvs, tx, rx, hpc, form, posts, appliance, faults, lastRead,
              lastDeposit, unsent, overwrote, outage>>

TestBytes == {0, 1, 128, 255}

\* Values a corrupted byte can take
NoiseBytes == TestBytes \cup {2, 127, 252}

BytesUpTo(n) == UNION {[1..k -> TestBytes] : k \in 0..n}

\* Packets as a caller can build them: any type and payload, the headers
\* of Packet::new or zero, `checksum: 0` until set_checksum is called.
TestFrames ==
    {[packet_type |-> t, h2 |-> a, h3 |-> b, data |-> d, checksum |-> 0] :
        t \in TestBytes, a \in {0, 1}, b \in {0, 48}, d \in BytesUpTo(MaxLen)}

\* desired_temperature_c in tenths of a degree: below zero, in the range of
\* the encoding, with a fraction the cast truncates, and 64 degrees or more.
TestTemps == {-50, -5, 0, 215, 217, 218, 635, 640, 1275, 1285}

TestSettings ==
    {[poweron |-> po, mode |-> mo, desired_temperature_c |-> te, fan_speed |-> fa,
      vane |-> va, widevane |-> wv, controller_led_brightness |-> le,
      controller_location |-> lo] :
        po \in {None, Some(TRUE), Some(FALSE)}, mo \in {None, Some(3)},
        te \in {None} \cup {Some(t) : t \in TestTemps},
        fa \in {None, Some(2)}, va \in {None, Some(1)}, wv \in {None, Some(3)},
        le \in {None, Some(50)}, lo \in {None, Some("den")}}

\* The running sum of compute_checksum in a build with overflow checks: -1
\* once a `sum += ...` has exceeded 255.
RECURSIVE CheckedSum(_, _)
CheckedSum(sum, bytes) ==
    IF sum < 0 \/ bytes = <<>> THEN sum
    ELSE IF sum + Head(bytes) > 255 THEN -1
    ELSE CheckedSum(sum + Head(bytes), Tail(bytes))

\* compute_checksum panics in a build with overflow checks: one of its
\* additions exceeds 255 or `0xfc - sum` falls below 0.
checksum_overflows(p) ==
    LET sum == CheckedSum(252, <<p.packet_type, p.h2, p.h3, Len(p.data) % 256>> \o p.data)
    IN sum < 0 \/ 252 - sum < 0

\* from_bytes gets as far as check_checksum and that one panics.
from_bytes_overflows(bytes) ==
    /\ Len(bytes) >= 6
    /\ bytes[1] = 252
    /\ Len(bytes) >= 6 + bytes[5]
    /\ checksum_overflows([packet_type |-> bytes[2], h2 |-> bytes[3], h3 |-> bytes[4],
                           data |-> SubSeq(bytes, 6, 5 + bytes[5]),
                           checksum |-> bytes[6 + bytes[5]]])

\* to_packet panics in a build with overflow checks: at `... as u8) + 128`
\* or in its set_checksum.
to_packet_overflows(s) ==
    \/ /\ IsSome(s.desired_temperature_c)
       /\ TempTimes2AsU8(Unwrap(s.desired_temperature_c)) + 128 > 255
    \/ checksum_overflows(to_packet(s))

\* A Settings status payload with the given mode byte, legacy temperature
\* byte (5) and new temperature byte (11)
SettingsPayload(m, b5, b11) == <<2, 0, 0, 1, m, b5, 0, 3, 0, 0, 3, b11, 0, 0, 0, 0>>

\* The same payload under the StandbyMode subtype
StandbyPayload == [SettingsPayload(8, 22, 0) EXCEPT ![1] = 9]

\* A RoomTemperature payload: legacy byte 3, newer bytes 6 (primary sensor)
\* and 7 (secondary sensor), i-See byte 8
RoomPayload(b3, b6, b7, b8) == <<3, 0, 0, b3, 0, 0, b6, b7, b8, 0, 0, 0, 0, 0, 0, 0>>

\* An ErrorCodeMaybe payload with byte 4 = b4
ErrorPayload(b4) == <<4, 0, 0, 0, b4, 7, 0, 0, 0, 0, 0, 0, 0, 0, 0, 1>>

\* Subtype bytes: the six of StatusPacketType and some that are none of them
TestSubtypes == {0, 1, 2, 3, 4, 5, 6, 7, 9, 10, 255}

TestPayloads ==
    {SettingsPayload(m, b5, b11) :
        m \in {1, 8}, b5 \in {0, 22, 245, 246, 255}, b11 \in 0..255}
    \cup {StandbyPayload, StatusPayload(3), [StatusPayload(3) EXCEPT ![7] = 100]}
    \cup {RoomPayload(b3, b6, b7, b8) :
            b3 \in {0, 12, 245, 246}, b6 \in {0, 100, 128, 172, 255},
            b7 \in {0, 100, 128, 180}, b8 \in {0, 1, 2, 3}}
    \cup {ErrorPayload(b4) : b4 \in {0, 1, 127, 128, 129, 255}}
    \cup {[SettingsPayload(1, 22, 0) EXCEPT ![1] = k] : k \in TestSubtypes}
    \cup {[StatusPayload(6) EXCEPT ![5] = b] : b \in {0, 1, 255}}

\* Frames status_to_state refuses: not of type 0x62, or not with 16 bytes
TestRefusedFrames ==
    {[Packet_new_type_size(t, 16) EXCEPT !.data = d] :
        t \in {0, 97, 122}, d \in {StatusPayload(2), ErrorPayload(1), StandbyPayload}}
    \cup {[Packet_new_type_size(t, n) EXCEPT !.data = [i \in 1..n |-> IF i = 1 THEN 2 ELSE 1]] :
            t \in {97, 98}, n \in {0, 1, 15, 17}}

\* An error payload decoded earlier
OldErrorPayload == ErrorPayload(3)

\* Snapshots status_to_state is applied to: the one of HeatPumpStatus::new
\* and one that earlier frames and a POST have already changed
TestSnapshots ==
    {HeatPumpStatus_new,
     [HeatPumpStatus_new EXCEPT
         !.connected = TRUE, !.poweron = TRUE, !.mode = 3,
         !.desired_temperature_c = 215, !.fan_speed = 2, !.vane = 1,
         !.isee_mode = 1, !.room_temperature_c = 200,
         !.room_temperature_c_2 = 210, !.operating = 1,
         !.error_data = Some(OldErrorPayload),
         !.last_status_packets =
             MapInsert(MapInsert(MapInsert(MapInsert(<<>>,
                 4, OldErrorPayload), 5, StatusPayload(5)),
                 7, [StatusPayload(5) EXCEPT ![1] = 7]), 3, StatusPayload(3)),
         !.desired_settings = Some(CmdB)]}

\* status_to_state panics in a build with overflow checks: at a
\* `data[..] - 128` below zero or a `data[..] + 10` above 255. In the Settings
\* arm the unwrap() of the mode comes first.
decode_overflows(d) ==
    \/ /\ d[1] = 2
       /\ IsSome(HeatPumpMode_from_repr(ClearBit(d[5], 8)))
       /\ IF d[12] # 0 THEN d[12] < 128 ELSE d[6] + 10 > 255
    \/ /\ d[1] = 3
       /\ \/ IF d[7] # 0 THEN d[7] < 128 ELSE d[4] + 10 > 255
          \/ d[8] # 0 /\ d[8] < 128

\* Bodies of POST /set.json, with the two lengths around the limit
TestBodies ==
    Bodies \cup {[content_len |-> HTTP_SERVER_MAX_LEN, parsed |-> Some(CmdA)],
                 [content_len |-> HTTP_SERVER_MAX_LEN + 1, parsed |-> Some(CmdA)]}

\* The store a request finds: fresh, or Connected with a pending command
TestStores ==
    {HeatPumpStatus_new,
     [HeatPumpStatus_new EXCEPT !.connected = TRUE, !.poweron = TRUE,
                                !.desired_settings = Some(CmdB)]}

\* One run of the handler of POST /set.json with no other thread in between:
\* the status answered and the store afterwards.
HandlePost(st, body) ==
    [status |-> PostStatus(body),
     state |-> IF PostStatus(body) = 200 THEN Deposit(st, Unwrap(body.parsed)) ELSE st]

CodecInit ==
    /\ LoopInit
    /\ appliance = "good"
    /\ \E checks \in BOOLEAN :
          LET none == CodecCase("none", checks, Packet_new_type_size(0, 0),
                                HeatPumpSetting_new)
          IN \/ \E p \in TestFrames :
                   codec = CodecCase("frame", checks, p, HeatPumpSetting_new)
             \/ \E s \in TestSettings :
                   codec = CodecCase("setting", checks, Packet_new_type_size(0, 0), s)
             \/ \E d \in TestPayloads, st \in TestSnapshots :
                   codec = [none EXCEPT
                               !.kind = "status", !.payload = d, !.store = st,
                               !.frame = [Packet_new_type_size(98, 16) EXCEPT !.data = d]]
             \/ \E f \in TestRefusedFrames, st \in TestSnapshots :
                   codec = [none EXCEPT !.kind = "refused", !.frame = f, !.store = st]
             \/ \E b \in TestBodies, st \in TestStores :
                   codec = [none EXCEPT !.kind = "post", !.body = b, !.store = st]

\* packet.set_checksum()
CodecSetChecksum ==
    /\ codec.kind = "frame"
    /\ codec.op = "init"
    /\ codec' = IF codec.overflow_checks /\ checksum_overflows(codec.frame)
                THEN [codec EXCEPT !.op = "set_checksum", !.panicked = TRUE]
                ELSE [codec EXCEPT !.op = "set_checksum", !.sealed = TRUE,
                                   !.frame = set_checksum(@)]
    /\ UNCHANGED loopVars

\* packet.to_bytes(), with or without a set_checksum() before it
CodecToBytes ==
    /\ codec.kind = "frame"
    /\ codec.op \in {"init", "set_checksum"}
    /\ ~codec.panicked
    /\ codec' = [codec EXCEPT !.op = "to_bytes", !.wire = to_bytes(codec.frame)]
    /\ UNCHANGED loopVars

\* The serial link replaces one byte of an encoded frame by another value.
CodecCorrupt ==
    /\ codec.op = "to_bytes"
    /\ codec.sealed
    /\ \E i \in 1..Len(codec.wire) : \E v \in NoiseBytes \ {codec.wire[i]} :
          codec' = [codec EXCEPT !.op = "corrupt", !.orig = codec.wire, !.hit = i,
                                 !.wire = [codec.wire EXCEPT ![i] = v]]
    /\ UNCHANGED loopVars

\* The read returns only the first bytes of an encoded frame.
CodecTruncate ==
    /\ codec.op = "to_bytes"
    /\ codec.sealed
    /\ \E n \in 0..(Len(codec.wire) - 1) :
          codec' = [codec EXCEPT !.op = "truncate", !.orig = codec.wire,
                                 !.wire = SubSeq(codec.wire, 1, n)]
    /\ UNCHANGED loopVars

\* Packet::from_bytes(&bytes)
CodecFromBytes ==
    /\ codec.op \in {"to_bytes", "corrupt", "truncate"}
    /\ codec' = IF codec.overflow_checks /\ from_bytes_overflows(codec.wire)
                THEN [codec EXCEPT !.op = "from_bytes", !.via = codec.op,
                                   !.panicked = TRUE]
                ELSE [codec EXCEPT !.op = "from_bytes", !.via = codec.op,
                                   !.result = from_bytes(codec.wire)]
    /\ UNCHANGED loopVars

\* setting.to_packet()
CodecToPacket ==
    /\ codec.kind = "setting"
    /\ codec.op = "init"
    /\ codec' = IF codec.overflow_checks /\ to_packet_overflows(codec.setting)
                THEN [codec EXCEPT !.op = "to_packet", !.panicked = TRUE]
                ELSE [codec EXCEPT !.op = "to_packet",
                                   !.packet = to_packet(codec.setting)]
    /\ UNCHANGED loopVars

\* setting.requires_packet()
CodecRequiresPacket ==
    /\ codec.kind = "setting"
    /\ codec.op = "init"
    /\ codec' = [codec EXCEPT !.op = "requires_packet",
                              !.needs = requires_packet(codec.setting)]
    /\ UNCHANGED loopVars

\* status_to_state(&packet, &state) on a fresh HeatPumpStatus, the payload
\* having arrived in a valid frame of type 0x62
CodecStatusToState ==
    /\ codec.kind \in {"status", "refused"}
    /\ codec.op = "init"
    /\ LET r == status_to_state(codec.frame, codec.store)
       IN codec' = IF /\ codec.overflow_checks
                      /\ CheckStatusPacket(codec.frame)
                      /\ decode_overflows(codec.frame.data)
                   THEN [codec EXCEPT !.op = "status_to_state", !.panicked = TRUE]
                   ELSE [codec EXCEPT !.op = "status_to_state",
                                      !.outcome = r.outcome, !.snapshot = r.state]
    /\ UNCHANGED loopVars

\* The handler of POST /set.json on one request
CodecPost ==
    /\ codec.kind = "post"
    /\ codec.op = "init"
    /\ LET r == HandlePost(codec.store, codec.body)
       IN codec' = [codec EXCEPT !.op = "post", !.status = r.status, !.snapshot = r.state]
    /\ UNCHANGED loopVars

CodecNext ==
    \/ CodecStatusToState
    \/ CodecPost
    \/ CodecSetChecksum
    \/ CodecToBytes
    \/ CodecCorrupt
    \/ CodecTruncate
    \/ CodecFromBytes
    \/ CodecToPacket
    \/ CodecRequiresPacket

CodecSpec == CodecInit /\ [][CodecNext]_vars

(***************************************************************************)
(* The store between the poll and GET /status.json                         *)
(*                                                                         *)
(* StoreSpec follows one poll after another of a connected loop with       *)
(* status_to_state taken step by step (its checks and lock(), the arm of   *)
(* the match, the insert and the release at its return) beside the handler *)
(* of GET /status.json (lock(), the serialisation, the response and the    *)
(* release at its return). codec.snapshot is what the handler serialised.  *)
(***************************************************************************)
\* Mutant of CanLock: the mutex is taken whoever holds it.
CanLock_Always(holder) == TRUE

\* Mutex::lock() returns once no thread holds a guard; after a panic under
\* the guard the mutex is poisoned and lock().unwrap() never returns one.
CanLock(holder) == holder = "none"

\* A Settings status whose fan byte (6) is no FanSpeed: the unwrap() fails
\* after poweron, isee_present, mode and the temperature were assigned
BadFanPayload == <<2, 0, 0, 1, 1, 22, 4, 3, 0, 0, 3, 0, 0, 0, 0, 0>>

\* What the appliance may answer to the status request for `subtype`
StoreReplies(subtype) ==
    IF subtype = 2
    THEN {StatusPayload(2), SettingsPayload(1, 24, 0), [StatusPayload(2) EXCEPT ![4] = 0],
          BadFanPayload}
    ELSE IF subtype = 3 THEN {StatusPayload(3), RoomPayload(12, 170, 180, 1)}
    ELSE IF subtype = 4 THEN {ErrorPayload(128), ErrorPayload(1)}
    ELSE IF subtype = 6 THEN {StatusPayload(6), [StatusPayload(6) EXCEPT ![5] = 0]}
    ELSE {StatusPayload(subtype)}

\* The snapshot of a loop that has connected and not polled yet
StoreStart == [HeatPumpStatus_new EXCEPT !.connected = TRUE]

StoreInit ==
    /\ pc = "decode_wait"
    /\ lock = "none"
    /\ state = StoreStart
    /\ connected = TRUE
    /\ data_to_send = FALSE
    /\ ptype = 1
    /\ pollElapsed = PollCap
    /\ uptime = 0
    /\ nvs = [led_brightness |-> None, controller_loc |-> None]
    /\ tx = <<>>
    /\ rx = <<>>
    /\ hpc = "idle"
    /\ form = HeatPumpSetting_new
    /\ posts = 0
    /\ appliance = "good"
    /\ faults = 0
    /\ lastRead = None
    /\ lastDeposit = None
    /\ unsent = FALSE
    /\ overwrote = FALSE
    /\ outage = 0
    /\ codec = [CodecIdle EXCEPT !.kind = "store"]

storeRest == <<connected, data_to_send, pollElapsed, uptime, nvs, form, posts, appliance,
               faults, lastRead, lastDeposit, unsent, overwrote, outage>>

\* The request of the for loop's current subtype and read_packet()
StoreReceive ==
    /\ pc = "decode_wait"
    /\ tx' = StatusRequest(StatusPacketTypes[ptype])
    /\ \E d \in StoreReplies(StatusPacketTypes[ptype]) : rx' = Frame(98, d)
    /\ pc' = "decode_lock"
    /\ UNCHANGED <<lock, state, ptype, hpc, codec, storeRest>>

\* status_to_state: the two checks and `stateref.lock().unwrap()`
DecodeLock ==
    /\ pc = "decode_lock"
    /\ CheckStatusPacket(from_bytes(rx).packet)
    /\ CanLock(lock)
    /\ lock' = "loop"
    /\ pc' = "decode_arm"
    /\ UNCHANGED <<state, ptype, tx, rx, hpc, codec, storeRest>>

\* status_to_state: the arm of the match on the subtype
DecodeArm ==
    /\ pc = "decode_arm"
    /\ LET r == status_to_state(from_bytes(rx).packet, state)
       IN /\ state' = [r.state EXCEPT !.last_status_packets = state.last_status_packets]
          /\ IF r.outcome = "panic"
             THEN pc' = "panic_decode" /\ lock' = "poisoned"
             ELSE pc' = "decode_insert" /\ UNCHANGED lock
    /\ UNCHANGED <<ptype, tx, rx, hpc, codec, storeRest>>

\* status_to_state: last_status_packets.insert(), Ok(()) and the guard's
\* drop; then the for loop goes on, and the next poll follows the last subtype
DecodeInsert ==
    /\ pc = "decode_insert"
    /\ LET d == from_bytes(rx).packet.data
       IN state' = [state EXCEPT !.last_status_packets = MapInsert(@, d[1], d)]
    /\ lock' = "none"
    /\ rx' = <<>>
    /\ tx' = <<>>
    /\ ptype' = IF ptype < Len(StatusPacketTypes) THEN ptype + 1 ELSE 1
    /\ pc' = "decode_wait"
    /\ UNCHANGED <<hpc, codec, storeRest>>

\* What the handler of GET /status.json puts in its response
Serialize(st) ==
    IF st.connected THEN st
    ELSE [connected |-> FALSE,
          controller_led_brightness |-> st.controller_led_brightness,
          controller_location |-> st.controller_location]

\* GET /status.json: `inner_state1.lock().unwrap()`
GetLock ==
    /\ hpc = "idle"
    /\ pc # "panic_decode"
    /\ CanLock(lock)
    /\ lock' = "get"
    /\ hpc' = "get_read"
    /\ UNCHANGED <<pc, state, ptype, tx, rx, codec, storeRest>>

\* GET /status.json: the JSON value is built from the guarded snapshot
GetRead ==
    /\ hpc = "get_read"
    /\ codec' = [codec EXCEPT !.op = "get", !.snapshot = Serialize(state)]
    /\ hpc' = "get_write"
    /\ UNCHANGED <<pc, lock, state, ptype, tx, rx, storeRest>>

\* GET /status.json: the response is written and the guard dropped at the
\* handler's return
GetWrite ==
    /\ hpc = "get_write"
    /\ codec' = [codec EXCEPT !.op = "init", !.snapshot = HeatPumpStatus_new]
    /\ lock' = "none"
    /\ hpc' = "idle"
    /\ UNCHANGED <<pc, state, ptype, tx, rx, storeRest>>

StoreNext ==
    \/ StoreReceive
    \/ DecodeLock
    \/ DecodeArm
    \/ DecodeInsert
    \/ GetLock
    \/ GetRead
    \/ GetWrite

StoreSpec == StoreInit /\ [][StoreNext]_vars

(***************************************************************************)
(* Properties                                                              *)
(***************************************************************************)
\* The appliance-facing fields of a HeatPumpSetting
AppFields(ds) ==
    <<ds.poweron, ds.mode, ds.desired_temperature_c, ds.fan_speed, ds.vane,
      ds.widevane>>

Pending == state.desired_settings
PendingWrite == IsSome(Pending) /\ requires_packet(Unwrap(Pending))
SetFrameOf(ds) == to_bytes(to_packet(ds))
IsSetFrame(bytes) == bytes # <<>> /\ bytes[2] = 65
IsStatusRequest(bytes) == bytes # <<>> /\ bytes[2] = 66

\* C1: a pending command with an appliance-facing field is removed from the
\* store (desired_settings becomes None) only in a cycle in which the set
\* frame encoding that very command was written and a set-ack (0x61) was read.
C1_ClearedOnlyAfterAck ==
    [][(PendingWrite /\ state'.desired_settings = None)
        => (tx = SetFrameOf(Unwrap(Pending)) /\ lastRead = Some(97))]_vars

\* C2: with an appliance that answers every request as expected, once the
\* last command has been deposited (no POST is left and the handler is idle)
\* and it needs a set frame, a set frame encoding it is eventually written,
\* unless the device restarts first.
C2_DepositLeadsToSetFrame ==
    (unsent /\ posts = MaxPosts /\ hpc = "idle") ~> (~unsent \/ pc \in Restarted)

\* C3: last write wins. Every set frame the loop writes encodes the
\* appliance-facing fields of the command deposited last, and of no other.
C3_LastWriteWins ==
    [][(pc = "set_write" /\ pc' = "set_read")
        => (IsSome(lastDeposit) /\ tx' = SetFrameOf(Unwrap(lastDeposit)))]_vars

\* C3 witness: a set frame for CmdB is on the wire after CmdB replaced a
\* pending command that had not been sent.
C3_Witness ==
    /\ pc = "set_read"
    /\ overwrote
    /\ lastDeposit = Some(CmdB)
    /\ tx = SetFrameOf(CmdB)
    /\ tx # SetFrameOf(CmdA)

\* C4: a malformed frame read from the serial link never ends the control
\* loop.
C4_MalformedFrameDiscarded == pc # "err_malformed"

\* C5: decoding a status reply never panics.
C5_DecodeNeverPanics == pc # "panic_decode"

\* C6: the link becomes Connected exactly in the step that reads a valid
\* connect-ack (0x7A) after the handshake; with no reply or a valid frame of
\* another type it stays Disconnected, and a cycle that starts Disconnected
\* sends the handshake.
C6_ConnectOnlyOnAck ==
    [][/\ (~state.connected /\ state'.connected)
            => (pc = "connect_read" /\ tx = CONNECT_BYTES /\ lastRead' = Some(122))
       /\ (pc = "connect_read" /\ pc' = "local")
            => (state'.connected <=> lastRead' = Some(122))
       /\ (pc = "start" /\ pc' # pc /\ ~state.connected /\ pc' \notin Restarted)
            => pc' = "connect_write"
       /\ (pc = "connect_write" /\ pc' # pc) => tx' = CONNECT_BYTES]_vars

C6_Witness ==
    /\ pc = "local"
    /\ tx = CONNECT_BYTES
    /\ lastRead = Some(122)
    /\ state.connected
    /\ ~connected

\* C7: when a set frame gets no reply the link becomes Disconnected and the
\* pending command stays in the store: the step leaves it as it is, the
\* controller-settings block of that cycle and of every later cycle that
\* found it at its start keep its appliance-facing fields, and a Connected
\* cycle that finds a pending command goes to the send branch.
C7_NoReplyKeepsCommand ==
    [][/\ (pc = "set_read" /\ pc' = "local" /\ lastRead' = None)
            => (~state'.connected /\ state'.desired_settings = Pending)
       /\ (pc = "local" /\ pc' = "end" /\ IsSome(Pending)
             /\ (data_to_send \/ (IsSetFrame(tx) /\ lastRead = None)))
            => (/\ IsSome(state'.desired_settings)
                /\ AppFields(Unwrap(state'.desired_settings)) = AppFields(Unwrap(Pending)))
       /\ (pc = "start" /\ pc' # pc /\ state.connected /\ IsSome(Pending)
             /\ pc' \notin Restarted)
            => pc' = "set_lock"
       /\ (pc = "set_lock" /\ PendingWrite /\ pc' # pc) => pc' = "set_write"]_vars

C7_Witness ==
    /\ pc = "end"
    /\ IsSetFrame(tx)
    /\ lastRead = None
    /\ ~state.connected
    /\ PendingWrite
    /\ tx = SetFrameOf(Unwrap(Pending))

\* C8: a valid reply to a set frame that is no set-ack (0x61) stops the
\* control loop for good; nothing is written to the serial link afterwards.
C8_UnexpectedReplyIsFatal ==
    [][/\ (pc = "set_read" /\ lastRead' # None /\ lastRead' # Some(97)
             /\ pc' # "err_malformed")
            => pc' = "panic_set"
       /\ (pc = "panic_set") => (pc' = "panic_set" /\ tx' = tx)]_vars

C8_Witness ==
    /\ pc = "panic_set"
    /\ IsSetFrame(tx)
    /\ lastRead = Some(122)

\* C9: in a status poll, the step in which a request gets no reply sets
\* connected to false, changes nothing else in the snapshot and leaves the
\* poll; a status request is only ever written while connected is true.
C9_PollAbortsOnNoReply ==
    [][/\ (pc = "poll_read" /\ pc' # pc /\ lastRead' = None /\ pc' # "err_malformed")
            => (/\ pc' = "local"
                /\ state' = [state EXCEPT !.connected = FALSE])
       /\ (pc = "poll_write" /\ pc' # pc)
            => (state.connected /\ IsStatusRequest(tx'))]_vars

\* C9 witness: the request for subtype 3 got no reply; the Settings status
\* decoded before it is kept and no later subtype was asked for.
C9_Witness ==
    /\ pc = "local"
    /\ tx = StatusRequest(3)
    /\ lastRead = None
    /\ ~state.connected
    /\ DOMAIN state.last_status_packets = {2}
    /\ state.poweron

SerialSteps ==
    {"set_write", "set_read", "poll_write", "poll_read", "connect_write", "connect_read"}

\* C11: no blocking I/O under the store lock: every step in which the control
\* loop writes to the serial link, or waits for and reads its reply, is taken
\* with the lock free.
C11_NoSerialIoUnderLock ==
    [][(pc \in SerialSteps /\ pc' # pc) => lock = "none"]_vars

\* Sum of a sequence of bytes as an integer, without any wrap-around
RECURSIVE SumInt(_)
SumInt(bytes) == IF bytes = <<>> THEN 0 ELSE Head(bytes) + SumInt(Tail(bytes))

\* (0xFC - S) mod 256 with S = (0xFC + type + header2 + header3 + length +
\* payload bytes) mod 256
ChecksumFormula(p) ==
    LET S == (252 + p.packet_type + p.h2 + p.h3 + Len(p.data) + SumInt(p.data)) % 256
    IN (252 - S) % 256

\* C12: round trip: a frame whose checksum was set by set_checksum, encoded
\* by to_bytes and decoded by from_bytes, comes back with the same type,
\* headers, payload and checksum, and check_checksum holds on it.
C12_RoundTrip ==
    (codec.op = "from_bytes" /\ codec.via = "to_bytes" /\ codec.sealed)
        => /\ ~codec.panicked
           /\ codec.result.ok
           /\ codec.result.packet = codec.frame
           /\ check_checksum(codec.result.packet)

C12_Witness ==
    /\ codec.op = "from_bytes" /\ codec.via = "to_bytes" /\ codec.sealed
    /\ Len(codec.frame.data) >= 2
    /\ codec.frame.packet_type = 255 /\ codec.frame.data[1] = 128
    /\ codec.frame.checksum # 0
    /\ codec.result.ok /\ codec.result.packet = codec.frame

\* C13: compute_checksum returns (0xFC - S) mod 256 and never fails, also
\* when the running sum exceeds 255.
C13_ChecksumWrapsNeverFails ==
    codec.op = "set_checksum"
        => /\ ~codec.panicked
           /\ codec.frame.checksum = ChecksumFormula(codec.frame)

\* The outcome the order of checks of C14 gives for a byte sequence
ExpectedOutcome(bytes) ==
    IF Len(bytes) < 6 THEN "TooShort"
    ELSE IF bytes[1] # 252 THEN "BadMarker"
    ELSE IF Len(bytes) < 6 + bytes[5] THEN "LengthMismatch"
    ELSE IF bytes[6 + bytes[5]]
              # (252 - (SumInt(SubSeq(bytes, 1, 5 + bytes[5])) % 256)) % 256
         THEN "ChecksumMismatch"
    ELSE "ok"

\* C14: whenever from_bytes returns, it fails with TooShort, BadMarker,
\* LengthMismatch or ChecksumMismatch, tested in this order, and succeeds in
\* every remaining case.
C14_ErrorOrder ==
    (codec.op = "from_bytes" /\ ~codec.panicked)
        => IF codec.result.ok THEN ExpectedOutcome(codec.wire) = "ok"
           ELSE codec.result.err = ExpectedOutcome(codec.wire)

C14_Witness ==
    /\ codec.op = "from_bytes" /\ codec.via = "corrupt" /\ ~codec.panicked
    /\ codec.hit = 5 /\ codec.wire[5] > codec.orig[5]
    /\ codec.wire[Len(codec.wire)] # 0
    /\ ~codec.result.ok /\ codec.result.err = "LengthMismatch"

\* C15: one byte of a valid encoded frame other than the length byte (the
\* marker, the type, a header, a payload byte or the checksum) replaced by
\* a different value: from_bytes does not succeed.
C15_SingleByteCorruption ==
    (codec.op = "from_bytes" /\ codec.via = "corrupt" /\ codec.hit # 5)
        => (codec.panicked \/ ~codec.result.ok)

C15_Witness ==
    /\ codec.op = "from_bytes" /\ codec.via = "corrupt" /\ ~codec.panicked
    /\ codec.hit > 5 /\ codec.hit < Len(codec.wire)
    /\ codec.wire[codec.hit] # codec.orig[codec.hit]
    /\ ~codec.result.ok /\ codec.result.err = "ChecksumMismatch"

\* C16 as stated: the length byte of a valid encoded frame replaced by any
\* different value: from_bytes does not succeed.
C16_LengthCorruptionRejected ==
    (codec.op = "from_bytes" /\ codec.via = "corrupt" /\ codec.hit = 5)
        => (codec.panicked \/ ~codec.result.ok)

\* The byte that sits where the checksum of the shortened frame is looked
\* for equals the checksum of that shortened frame.
ShortenedMatches(bytes) ==
    bytes[6 + bytes[5]] = (252 - (SumInt(SubSeq(bytes, 1, 5 + bytes[5])) % 256)) % 256

\* C16: the length byte of a valid encoded frame replaced by a larger value:
\* from_bytes fails with LengthMismatch. Replaced by a smaller value n:
\* from_bytes succeeds only if the byte at offset 5 + n equals the checksum
\* of the frame cut to n payload bytes, it then returns that shortened frame
\* and ignores the bytes after it, and whenever that byte matches and
\* from_bytes returns, it succeeds.
C16_LengthCorruption ==
    (codec.op = "from_bytes" /\ codec.via = "corrupt" /\ codec.hit = 5)
        => IF codec.wire[5] > codec.orig[5]
           THEN /\ ~codec.panicked
                /\ ~codec.result.ok /\ codec.result.err = "LengthMismatch"
           ELSE \/ codec.panicked
                \/ /\ codec.result.ok <=> ShortenedMatches(codec.wire)
                   /\ codec.result.ok =>
                         /\ codec.result.packet.data
                               = SubSeq(codec.orig, 6, 5 + codec.wire[5])
                         /\ Len(codec.wire) > packet_size(codec.result.packet)

C16_Witness ==
    /\ codec.op = "from_bytes" /\ codec.via = "corrupt" /\ codec.hit = 5
    /\ codec.wire[5] < codec.orig[5]
    /\ codec.result.ok
    /\ Len(codec.result.packet.data) < Len(codec.frame.data)

StripLocal(ds) ==
    [ds EXCEPT !.controller_led_brightness = None, !.controller_location = None]

\* C18: the bytes of every set frame written to the serial link are those of
\* the pending command without its controller-local fields: commands that
\* differ only in controller_led_brightness or controller_location give the
\* same frame.
C18_LocalFieldsNeverSent ==
    [][(pc = "set_write" /\ pc' = "set_read")
          => /\ tx' = to_bytes(to_packet(StripLocal(Unwrap(Pending))))
             /\ to_packet(Unwrap(Pending)) = to_packet(StripLocal(Unwrap(Pending)))]_vars

C18_Witness ==
    /\ pc = "set_read"
    /\ IsSome(Pending)
    /\ IsSome(Unwrap(Pending).controller_led_brightness)
    /\ IsSome(Unwrap(Pending).controller_location)
    /\ tx = SetFrameOf(StripLocal(Unwrap(Pending)))

\* C19: requires_packet is true exactly when one of the six appliance-facing
\* fields is present, whatever the controller-local fields are, which is
\* exactly when the frame of to_packet has a nonzero mask in payload byte 1
\* or 2.
C19_RequiresPacketIffAppField ==
    codec.op = "requires_packet"
        => /\ codec.needs <=> (\E i \in 1..6 : IsSome(AppFields(codec.setting)[i]))
           /\ codec.needs <=> \/ to_packet(codec.setting).data[2] # 0
                              \/ to_packet(codec.setting).data[3] # 0

C19_Witness ==
    /\ codec.op = "requires_packet" /\ codec.needs
    /\ IsSome(codec.setting.widevane)
    /\ \A i \in 1..5 : ~IsSome(AppFields(codec.setting)[i])
    /\ IsSome(codec.setting.controller_led_brightness)

\* Distance of two temperatures, in tenths of a degree
Dist(a, b) == IF a >= b THEN a - b ELSE b - a

\* C20: the byte to_packet writes for a target temperature t, decoded by the
\* rule (byte - 128) / 2 of the Settings decoder, is within 0.5 degrees of
\* t, and encoding never fails.
C20_TemperatureSymmetry ==
    (codec.op = "to_packet" /\ IsSome(codec.setting.desired_temperature_c))
        => /\ ~codec.panicked
           /\ Dist(NewTemp(codec.packet.data[15]),
                   Unwrap(codec.setting.desired_temperature_c)) <= 5

\* C21 as stated: the payload [9,0,0,1,8,22,0,3,0,0,3,0,0,0,0,0] decoded into
\* a fresh snapshot gives poweron = true, mode = Auto (8) and a target
\* temperature of 32.
C21_StandbyPayloadSetsSettings ==
    (/\ codec.op = "status_to_state" /\ codec.payload = StandbyPayload
     /\ codec.store = HeatPumpStatus_new)
        => /\ codec.snapshot.poweron
           /\ codec.snapshot.mode = 8
           /\ codec.snapshot.desired_temperature_c = 320

\* C21: the payload [9,0,0,1,8,22,0,3,0,0,3,0,0,0,0,0] has subtype 9
\* (StandbyMode): decoding it into a fresh snapshot succeeds and changes no
\* decoded field (poweron stays false, mode Off, target temperature -999);
\* only last_status_packets[9] records the payload.
C21_StandbyPayloadIgnored ==
    (/\ codec.op = "status_to_state" /\ codec.payload = StandbyPayload
     /\ codec.store = HeatPumpStatus_new)
        => /\ ~codec.panicked
           /\ codec.outcome = "ok"
           /\ codec.snapshot =
                 [HeatPumpStatus_new EXCEPT
                     !.last_status_packets = MapInsert(<<>>, 9, StandbyPayload)]
           /\ ~codec.snapshot.poweron
           /\ codec.snapshot.mode = 0
           /\ codec.snapshot.desired_temperature_c = -9990

C21_Witness ==
    /\ codec.op = "status_to_state" /\ codec.payload = StandbyPayload
    /\ codec.store = HeatPumpStatus_new
    /\ codec.outcome = "ok"
    /\ DOMAIN codec.snapshot.last_status_packets = {9}
    /\ codec.snapshot.last_status_packets[9][5] = 8

\* C22: a POST /set.json whose declared length exceeds HTTP_SERVER_MAX_LEN is
\* answered 413, one whose body does not parse is answered 400, and in both
\* cases the store is as it was.
C22_RejectedPostLeavesStore ==
    codec.op = "post"
        => /\ codec.body.content_len > HTTP_SERVER_MAX_LEN
                 => (codec.status = 413 /\ codec.snapshot = codec.store)
           /\ (codec.body.content_len <= HTTP_SERVER_MAX_LEN /\ ~IsSome(codec.body.parsed))
                 => (codec.status = 400 /\ codec.snapshot = codec.store)

C22_Witness ==
    /\ codec.op = "post"
    /\ codec.status = 413
    /\ IsSome(codec.body.parsed)
    /\ IsSome(codec.store.desired_settings)
    /\ codec.snapshot = codec.store

SetSteps == {"set_lock", "set_write", "set_read"}
PollSteps == {"poll_flush", "poll_write", "poll_read"}

\* C23: a Connected cycle that finds a pending command at its start takes
\* the set branch whatever the poll timer says, the set branch never goes on
\* to a poll or writes a status request, and a poll only runs in a cycle that
\* found no pending command.
C23_CommandBeforePoll ==
    [][/\ (pc = "start" /\ pc' # pc /\ state.connected /\ IsSome(Pending))
            => pc' \in {"set_lock", "restart_wifi"}
       /\ pc \in SetSteps => (pc' \notin PollSteps /\ ~IsStatusRequest(tx'))
       /\ (pc \in {"local", "end"} /\ pc' # pc) => tx' \in {tx, <<>>}
       /\ (pc \in PollSteps /\ pc' # pc) => ~data_to_send]_vars

C23_Witness ==
    /\ pc = "local"
    /\ connected
    /\ IsSetFrame(tx)
    /\ lastRead = Some(97)
    /\ pollElapsed > RESPONSE_DELAY

\* C24: the poll timer goes back only at the end of a poll in which all six
\* subtypes were answered and decoded; a poll aborted by a missing reply
\* does not put it back; and a Connected cycle with no pending command whose
\* timer is above the interval starts a poll.
C24_TimerResetOnlyByCompletePoll ==
    [][/\ pollElapsed' < pollElapsed
            => /\ pc = "poll_read" /\ pc' = "local"
               /\ ptype = Len(StatusPacketTypes)
               /\ lastRead' = Some(98)
       /\ (pc = "poll_read" /\ pc' = "local" /\ lastRead' = None)
            => pollElapsed' >= pollElapsed
       /\ (pc = "start" /\ pc' # pc /\ state.connected /\ ~IsSome(Pending)
              /\ pollElapsed > RESPONSE_DELAY)
            => pc' \in {"poll_flush", "restart_wifi"}]_vars

C24_Witness ==
    /\ pc = "local"
    /\ IsStatusRequest(tx) /\ tx[6] = 4
    /\ lastRead = None
    /\ ~state.connected
    /\ DOMAIN state.last_status_packets = {2, 3}
    /\ pollElapsed > RESPONSE_DELAY

\* C25: every request (connect handshake, set frame, status request) is
\* written with no unread byte left on the link, so that what is read after
\* it was received after it.
C25_FlushedBeforeEveryRequest ==
    [][(pc \in {"connect_write", "set_write", "poll_write"} /\ pc' # pc)
          => rx = <<>>]_vars

NoAppField(ds) == \A i \in 1..6 : ~IsSome(AppFields(ds)[i])

\* The controller-local fields present in ds are in the NVS record n
Persisted(ds, n) ==
    /\ IsSome(ds.controller_led_brightness) => n.led_brightness = ds.controller_led_brightness
    /\ IsSome(ds.controller_location) => n.controller_loc = ds.controller_location

\* C26: in a Connected cycle whose pending command has no appliance-facing
\* field, the set branch writes nothing to the serial link and goes to the
\* block of the controller's own settings, which persists the controller-local
\* fields and leaves no pending command.
C26_LocalOnlyCommand ==
    [][/\ (pc = "set_lock" /\ pc' # pc /\ IsSome(Pending) /\ NoAppField(Unwrap(Pending)))
            => (pc' = "local" /\ tx' = <<>> /\ ~data_to_send')
       /\ (pc = "local" /\ pc' # pc /\ connected /\ ~data_to_send /\ tx = <<>>
              /\ IsSome(Pending))
            => (state'.desired_settings = None /\ Persisted(Unwrap(Pending), nvs'))]_vars

C26_Witness ==
    /\ pc = "end"
    /\ connected
    /\ tx = <<>>
    /\ pollElapsed > RESPONSE_DELAY
    /\ lastDeposit = Some(CmdL)
    /\ Pending = None
    /\ nvs = [led_brightness |-> Some(50), controller_loc |-> Some("den")]

\* C27: the block of the controller's own settings, whenever it finds a
\* pending command, writes the command's LED brightness and location, when
\* present, to the NVS, and a command that stays pending has both fields
\* absent.
C27_LocalFieldsPersisted ==
    [][(pc = "local" /\ pc' # pc /\ IsSome(Pending))
          => /\ Persisted(Unwrap(Pending), nvs')
             /\ IsSome(Pending')
                  => /\ ~IsSome(Unwrap(Pending').controller_led_brightness)
                     /\ ~IsSome(Unwrap(Pending').controller_location)]_vars

C27_Witness ==
    /\ pc = "end"
    /\ IsSetFrame(tx)
    /\ lastRead = None
    /\ ~state.connected
    /\ lastDeposit = Some(CmdB)
    /\ Pending = Some(StripLocal(CmdB))
    /\ nvs = [led_brightness |-> Some(50), controller_loc |-> Some("den")]

\* Mask bit and value byte of an optional field
MaskBit(o, bit) == IF IsSome(o) THEN bit ELSE 0
ValueByte(o) == IF IsSome(o) THEN Unwrap(o) ELSE 0

\* C28: the frame of to_packet has type 0x41, a 16-byte payload, byte 0 = 1
\* and a valid checksum; each field's mask bit is set iff the field is
\* present, its value byte holds its wire code when present and 0 when
\* absent, and every other payload byte is 0.
C28_SetFrameLayout ==
    (codec.op = "to_packet" /\ ~codec.panicked)
        => LET s == codec.setting
               d == codec.packet.data
           IN /\ codec.packet.packet_type = 65
              /\ Len(d) = 16
              /\ d[1] = 1
              /\ check_checksum(codec.packet)
              /\ d[2] = MaskBit(s.poweron, 1) + MaskBit(s.mode, 2)
                           + MaskBit(s.desired_temperature_c, 4)
                           + MaskBit(s.fan_speed, 8) + MaskBit(s.vane, 16)
              /\ d[3] = MaskBit(s.widevane, 1)
              /\ d[4] = (IF s.poweron = Some(TRUE) THEN 1 ELSE 0)
              /\ d[5] = ValueByte(s.mode)
              /\ d[7] = ValueByte(s.fan_speed)
              /\ d[8] = ValueByte(s.vane)
              /\ d[14] = ValueByte(s.widevane)
              /\ ~IsSome(s.desired_temperature_c) => d[15] = 0
              /\ (IsSome(s.desired_temperature_c)
                    /\ Unwrap(s.desired_temperature_c) \in 0..635)
                   => d[15] = ((2 * Unwrap(s.desired_temperature_c)) \div 10) + 128
              /\ \A i \in {6, 9, 10, 11, 12, 13, 16} : d[i] = 0

C28_Witness ==
    /\ codec.op = "to_packet" /\ ~codec.panicked
    /\ \A i \in 1..6 : IsSome(AppFields(codec.setting)[i])
    /\ codec.setting.poweron = Some(FALSE)
    /\ codec.setting.desired_temperature_c = Some(215)
    /\ codec.packet.data[2] = 31 /\ codec.packet.data[3] = 1
    /\ codec.packet.data[15] = 171

\* C29: for a target temperature t (here from 0 up to below 64 degrees, where
\* nothing saturates or overflows) the byte at payload offset 14 is
\* round(t * 2) + 128; with t in tenths of a degree, round(t * 2) is
\* (2 * t + 5) \div 10.
C29_TemperatureRounded ==
    (/\ codec.op = "to_packet" /\ ~codec.panicked
     /\ IsSome(codec.setting.desired_temperature_c)
     /\ Unwrap(codec.setting.desired_temperature_c) \in 0..635)
        => codec.packet.data[15]
              = ((2 * Unwrap(codec.setting.desired_temperature_c) + 5) \div 10) + 128

\* C30: for a Settings status payload the decoded target temperature is
\* (b11 - 128) / 2 when payload byte 11 is nonzero, negative below 128, and
\* b5 + 10 when it is zero, and neither computation overflows.
C30_DecodedTemperature ==
    (codec.op = "status_to_state" /\ codec.kind = "status" /\ codec.payload[1] = 2)
        => /\ ~codec.panicked
           /\ codec.outcome = "ok"
           /\ codec.snapshot.desired_temperature_c =
                 IF codec.payload[12] # 0 THEN (codec.payload[12] - 128) * 5
                 ELSE (codec.payload[6] + 10) * 10

\* C31: for a RoomTemperature status payload both ambient temperatures follow
\* the same dual rule: (byte - 128) / 2 when the sensor's newer byte (6 for
\* the primary, 7 for the secondary) is nonzero, otherwise a legacy byte
\* plus 10 (byte 3 for the primary, some byte value for the secondary).
C31_RoomTemperatureDualRule ==
    (codec.op = "status_to_state" /\ codec.kind = "status" /\ codec.payload[1] = 3)
        => /\ ~codec.panicked
           /\ codec.outcome = "ok"
           /\ codec.snapshot.room_temperature_c =
                 IF codec.payload[7] # 0 THEN (codec.payload[7] - 128) * 5
                 ELSE (codec.payload[4] + 10) * 10
           /\ IF codec.payload[8] # 0
              THEN codec.snapshot.room_temperature_c_2 = (codec.payload[8] - 128) * 5
              ELSE \E b \in 0..255 :
                      codec.snapshot.room_temperature_c_2 = (b + 10) * 10

\* C32: decoding an ErrorCodeMaybe payload sets error_data to None when
\* payload byte 4 is 0x80 and to the whole 16-byte payload otherwise,
\* whatever error_data held before.
C32_ErrorPayloadStoredOrCleared ==
    (codec.op = "status_to_state" /\ codec.kind = "status" /\ codec.payload[1] = 4)
        => /\ ~codec.panicked
           /\ codec.outcome = "ok"
           /\ codec.payload[5] = 128 => codec.snapshot.error_data = None
           /\ codec.payload[5] # 128
                 => /\ codec.snapshot.error_data = Some(codec.payload)
                    /\ Len(Unwrap(codec.snapshot.error_data)) = 16

C32_Witness ==
    /\ codec.op = "status_to_state" /\ codec.kind = "status"
    /\ codec.payload = ErrorPayload(128)
    /\ codec.store.error_data = Some(OldErrorPayload)
    /\ codec.snapshot.error_data = None

\* The subtypes whose arm of status_to_state assigns typed fields
DecodedSubtypes == {2, 3, 4, 6}

\* C33: when status_to_state returns Ok for a 0x62 frame with 16 bytes,
\* last_status_packets holds that payload under the key payload[0] and its
\* other entries are as before; for Timers, StandbyMode and every subtype
\* byte that is no StatusPacketType the decoding always returns Ok and
\* changes nothing else in the snapshot.
C33_RawMapAlwaysUpdated ==
    (codec.op = "status_to_state" /\ codec.kind = "status")
        => LET k == codec.payload[1]
               before == codec.store.last_status_packets
               after == codec.snapshot.last_status_packets
           IN /\ (~codec.panicked /\ codec.outcome = "ok")
                    => /\ DOMAIN after = DOMAIN before \cup {k}
                       /\ after[k] = codec.payload
                       /\ \A j \in DOMAIN before \ {k} : after[j] = before[j]
              /\ k \notin DecodedSubtypes
                    => /\ ~codec.panicked
                       /\ codec.outcome = "ok"
                       /\ codec.snapshot =
                             [codec.store EXCEPT !.last_status_packets = after]

C33_Witness ==
    /\ codec.op = "status_to_state" /\ codec.kind = "status"
    /\ codec.payload[1] = 7
    /\ codec.outcome = "ok"
    /\ 7 \in DOMAIN codec.store.last_status_packets
    /\ codec.store.last_status_packets[7] # codec.payload
    /\ codec.snapshot.last_status_packets[7] = codec.payload
    /\ codec.snapshot.error_data = Some(OldErrorPayload)

\* C34: status_to_state on a frame whose type is not 0x62 or whose payload
\* is not 16 bytes long returns an error and leaves the whole snapshot,
\* last_status_packets and connected included, as it was.
C34_RefusedFrameChangesNothing ==
    (/\ codec.op = "status_to_state"
     /\ codec.frame.packet_type # 98 \/ Len(codec.frame.data) # 16)
        => /\ ~codec.panicked
           /\ codec.outcome = "err"
           /\ codec.snapshot = codec.store

C34_Witness ==
    /\ codec.op = "status_to_state"
    /\ codec.frame.packet_type = 97 /\ Len(codec.frame.data) = 16
    /\ codec.store.connected
    /\ codec.store.last_status_packets # <<>>
    /\ codec.outcome = "err"
    /\ codec.snapshot = codec.store

\* C35: the unwrap() of the pending command in the set branch never fails:
\* the loop is at the head of that branch only with a command in the store,
\* and a present command becomes absent only by the loop's own block of the
\* controller's settings, never by a step of a handler.
C35_TakeNeverFails ==
    [][/\ pc' # "panic_take"
       /\ pc' = "set_lock" => IsSome(Pending')
       /\ (pc = "set_lock" /\ hpc = "deposit" /\ hpc' = "idle") => IsSome(Pending')
       /\ (IsSome(Pending) /\ ~IsSome(Pending')) => (pc = "local" /\ pc' = "end")]_vars

\* The loop has sampled data_to_send and not yet re-acquired the lock, and
\* a handler is about to deposit another command in between.
C35_Witness ==
    /\ pc = "set_lock"
    /\ data_to_send
    /\ hpc = "deposit"
    /\ lock = "none"
    /\ Pending = Some(CmdA)
    /\ form = CmdL

\* A well-formed frame: 0xFC first, the length byte equal to the number of
\* payload bytes, and the last byte the checksum of the bytes before it.
WellFormed(bytes) ==
    /\ Len(bytes) >= 6
    /\ bytes[1] = 252
    /\ bytes[5] = Len(bytes) - 6
    /\ bytes[Len(bytes)] = (252 - (SumInt(SubSeq(bytes, 1, Len(bytes) - 1)) % 256)) % 256

\* C36: whatever the loop writes to the serial link (the connect handshake,
\* a set frame, a status request) is a well-formed frame.
C36_WrittenFramesWellFormed ==
    tx # <<>> => /\ WellFormed(tx)
                 /\ tx = CONNECT_BYTES \/ IsSetFrame(tx) \/ IsStatusRequest(tx)

C36_Witness ==
    /\ pc = "poll_read"
    /\ ptype = 6
    /\ IsStatusRequest(tx) /\ tx[6] = 9
    /\ WellFormed(tx)
    /\ tx[Len(tx)] # 0

\* The positions of the loop whose next step begins with state.lock()
LoopAcquires == {"start", "set_lock", "poll_read", "connect_read", "local"}

\* C38: the loop holds the lock only between the head of the set branch and
\* the end of its read, is never about to acquire it while it holds it, and
\* releases it with the step that ends the set branch, a step that is always
\* possible; a handler's deposit takes and releases it in one step.
C38_NoSelfDeadlock ==
    [][/\ lock = "loop" => (pc \in {"set_write", "set_read"} /\ ENABLED Loop)
       /\ pc \in LoopAcquires => lock = "none"
       /\ (lock = "none" /\ lock' = "loop") => (pc = "set_lock" /\ pc' = "set_write")
       /\ (pc = "set_read" /\ pc' # pc) => (lock = "loop" /\ lock' = "none")
       /\ hpc' # hpc => (lock' = lock)]_vars

\* The set branch has gone through its "no response" arm, which assigns
\* connected through the guard it holds, and the lock is free again.
C38_Witness ==
    /\ pc = "local"
    /\ lock = "none"
    /\ IsSetFrame(tx)
    /\ lastRead = None
    /\ ~state.connected
    /\ hpc = "deposit"

\* C39: at the end of a poll in which no reply was missing (the one that
\* resets the poll timer) last_status_packets has an entry for each of the
\* six subtypes requested.
C39_CompletePollFillsMap ==
    [][(pc = "poll_read" /\ pc' = "local" /\ lastRead' = Some(98))
          => \A k \in {2, 3, 4, 5, 6, 9} :
                k \in DOMAIN state'.last_status_packets]_vars

\* The snapshot that decoding the frames of last_status_packets `m`, each
\* as a whole, leaves in the store that started as `s0`
Replayed(m, s0) ==
    LET a == IF 2 \in DOMAIN m THEN DecodeSettings(m[2], s0).state ELSE s0
        b == IF 3 \in DOMAIN m THEN DecodeRoomTemperature(m[3], a) ELSE a
        c == IF 4 \in DOMAIN m THEN DecodeErrorCodeMaybe(m[4], b) ELSE b
        d == IF 6 \in DOMAIN m THEN DecodeMiscInfo(m[6], c) ELSE c
    IN [d EXCEPT !.last_status_packets = m]

\* C37: what GET /status.json serialises is always a snapshot in which every
\* status frame has been applied as a whole (its typed fields are those of
\* the frames in last_status_packets), and the handler never holds the
\* snapshot while status_to_state is between its lock() and its return.
C37_GetSeesWholeFrames ==
    /\ hpc = "get_write"
          => codec.snapshot = Replayed(codec.snapshot.last_status_packets, StoreStart)
    /\ hpc \in {"get_read", "get_write"} => pc \notin {"decode_arm", "decode_insert"}
    /\ pc = "panic_decode" => hpc = "idle"

\* The handler has serialised the snapshot of a full poll while the loop,
\* with another Settings frame read, waits for the lock.
C37_Witness ==
    /\ hpc = "get_write"
    /\ pc = "decode_lock"
    /\ lock = "get"
    /\ DOMAIN codec.snapshot.last_status_packets = {2, 3, 4, 5, 6, 9}
    /\ codec.snapshot.last_status_packets[2] = StatusPayload(2)
    /\ from_bytes(rx).packet.data = SettingsPayload(1, 24, 0)
    /\ codec.snapshot.poweron
    /\ codec.snapshot.desired_temperature_c = 320

====
